---- MODULE Spec2Model ----
(***************************************************************************)
(* LangChef backend: the credential lifecycle of                           *)
(* backend/services/auth_service.py (bearer tokens, the session validator  *)
(* get_current_user, the delegated-credential check                        *)
(* validate_aws_credentials and the device-authorization poll              *)
(* create_token_from_device_code) over the users table of                  *)
(* backend/models/user.py.                                                 *)
(*                                                                         *)
(* Time is an integer clock in UTC.  A datetime is a record                *)
(* [tz, wall, off]: tz = "none" is Python's None, tz = "naive" a datetime  *)
(* without tzinfo, tz = "aware" one whose tzinfo has UTC offset off; wall  *)
(* is the wall-clock reading the datetime carries.                         *)
(***************************************************************************)
EXTENDS Integers, FiniteSets, Sequences, TLC

VARIABLES users, now, last, devices, settings, nextId,
          datasets, experiments, chats, procs

vars == <<users, now, last, devices, settings, nextId,
          datasets, experiments, chats, procs>>

\* the tables and in-flight requests outside the credential lifecycle
others == <<datasets, experiments, chats, procs>>

\* ------------------------------------------------------------------ bounds
MaxTime == 3
MaxUsers == 2

\* ---------------------------------------------------------------- universe
NONE == "none"

Usernames == {"alice", "bob"}

\* UTC offsets an aware datetime can carry
TzOffsets == {0, 1}

\* UTC offset of the server's local zone (datetime.fromtimestamp)
LocalOffsets == {1}

NoDate == [tz |-> "none", wall |-> 0, off |-> 0]

Naive(w) == [tz |-> "naive", wall |-> w, off |-> 0]

Aware(w, o) == [tz |-> "aware", wall |-> w, off |-> o]

\* the instant (UTC) a stored expiry denotes; a naive value is read as UTC,
\* the convention of datetime.utcnow() it is compared with
Instant(d) == IF d.tz = "aware" THEN d.wall - d.off ELSE d.wall

Truthy(x) == x # NONE

\* ------------------------------------------------------------ HTTP outcomes
Response(st, det, hdr, usr) ==
    [status |-> st, detail |-> det, headers |-> hdr, user |-> usr]

\* auth_service.py:74-78
credentials_exception ==
    Response(401, "Could not validate credentials", "WWW-Authenticate: Bearer", NONE)

\* auth_service.py:97-100
InactiveUser == Response(403, "Inactive user", NONE, NONE)

\* auth_service.py:115-119
AwsSessionExpired ==
    Response(401, "AWS session expired, please log in again",
             "X-AWS-Session-Expired: true", NONE)

Returned(username) == Response(200, "ok", NONE, username)

NoResponse == Response(0, NONE, NONE, NONE)

\* ------------------------------------------------------------ token signer
\* jose.jwt.decode(token, SECRET_KEY, algorithms=["HS256"]): the signature is
\* verified first, then the exp claim; exp < now raises ExpiredSignatureError,
\* a subclass of JWTError.
jwt_decode(token, t) ==
    IF token.sig # "good" THEN [err |-> "JWTError", sub |-> NONE]
    ELSE IF token.exp < t THEN [err |-> "ExpiredSignatureError", sub |-> NONE]
    ELSE [err |-> NONE, sub |-> token.sub]

\* both exception classes are caught by "except jwt.JWTError"
IsJWTError(e) == e \in {"JWTError", "ExpiredSignatureError"}

\* ------------------------------------------------------- session validator
\* token_expiry.replace(tzinfo=None) when the value is aware: the offset is
\* dropped and the wall-clock reading kept
StripTz(d) == IF d.tz = "aware" THEN Naive(d.wall) ELSE d

\* "now > token_expiry" of two naive datetimes
ExpiredAt(d, t) == t > StripTz(d).wall

UserByEmail(store, name) == {r \in store : r.email = name}

\* select(User).filter(User.username == username)
UserByName(store, name) == {r \in store : r.username = name}

\* "except jwt.JWTError: raise credentials_exception"
DecodeFailed == credentials_exception

\* "if username is None: raise credentials_exception"
MissingSubject == credentials_exception

UserNotFound404 == Response(404, "User not found", NONE, NONE)

\* "if user is None: raise credentials_exception"
UserNotFound == credentials_exception

HasExpiryOrUnset(user) == TRUE

\* "if user.aws_token_expiry:"
HasExpiry(user) == user.aws_token_expiry.tz # "none"

get_current_user_expiry_first(token, store, t) ==
    LET payload == jwt_decode(token, t)
        found == UserByName(store, payload.sub)
    IN  IF IsJWTError(payload.err) THEN DecodeFailed
        ELSE IF payload.sub = NONE THEN MissingSubject
        ELSE IF found = {} THEN UserNotFound
        ELSE LET user == CHOOSE r \in found : TRUE
             IN  IF HasExpiry(user) /\ ExpiredAt(user.aws_token_expiry, t)
                 THEN AwsSessionExpired
                 ELSE IF ~user.is_active THEN InactiveUser
                 ELSE Returned(user.username)

get_current_user(token, store, t) ==
    LET payload == jwt_decode(token, t)
        found == UserByName(store, payload.sub)
    IN  IF IsJWTError(payload.err) THEN DecodeFailed
        ELSE IF payload.sub = NONE THEN MissingSubject
        ELSE IF found = {} THEN UserNotFound
        ELSE LET user == CHOOSE r \in found : TRUE
             IN  IF ~user.is_active THEN InactiveUser
                 ELSE IF HasExpiry(user) /\ ExpiredAt(user.aws_token_expiry, t)
                      THEN AwsSessionExpired
                 ELSE Returned(user.username)

\* validate_aws_credentials(user): [ret, live]; live says whether
\* sts.get_caller_identity() was called, liveOk whether that call succeeds.
\* Every exception of the live call is caught and gives False.
validate_aws_credentials(user, t, liveOk) ==
    IF ~Truthy(user.aws_access_key_id) \/ ~Truthy(user.aws_secret_access_key)
    THEN [ret |-> FALSE, live |-> FALSE]
    ELSE IF HasExpiry(user) /\ ExpiredAt(user.aws_token_expiry, t)
    THEN [ret |-> FALSE, live |-> FALSE]
    ELSE [ret |-> liveOk, live |-> TRUE]

\* ------------------------------------------------------------ token issue
\* ACCESS_TOKEN_EXPIRE_MINUTES, in clock ticks
TokenTtl == 2

Token(sg, sb, ex, cl) == [sig |-> sg, sub |-> sb, exp |-> ex, claims |-> cl]

NoToken == Token(NONE, NONE, 0, {})

\* settings.SECRET_KEY: an HMAC secret, or a string the JWT library refuses
\* as one (a PEM public key), which makes jwt.encode raise
SecretKeys == {"secret", "-----BEGIN PUBLIC KEY-----"}

jwt_encode_ok(cfg) == cfg.secretKey # "-----BEGIN PUBLIC KEY-----"

\* create_token(data): data plus "exp", signed with SECRET_KEY
create_token(sub, dataKeys, t) == Token("good", sub, t + TokenTtl, dataKeys \cup {"exp"})

\* ---------------------------------------------------------- users table
Row(i, un, em, fn, ident, ak, sk, st, ex, act) ==
    [id |-> i, username |-> un, email |-> em, full_name |-> fn,
     aws_identity_id |-> ident, aws_access_key_id |-> ak,
     aws_secret_access_key |-> sk, aws_session_token |-> st,
     aws_token_expiry |-> ex, is_active |-> act]

\* aws_token_expiry is DateTime(timezone=True): the driver stores the
\* instant (a naive value is taken as server-local time) and a later
\* request loads it as an aware UTC datetime
ColumnStore(d, localOff) ==
    IF d.tz = "none" THEN NoDate
    ELSE IF d.tz = "naive" THEN Aware(d.wall - localOff, 0)
    ELSE Aware(d.wall - d.off, 0)

\* unique=True on username, email and aws_identity_id (NULLs are distinct)
UniqueOk(store) ==
    \A r1, r2 \in store :
        r1 # r2 =>
            /\ r1.id # r2.id
            /\ r1.username # r2.username
            /\ r1.email # r2.email
            /\ (r1.aws_identity_id = NONE \/ r1.aws_identity_id # r2.aws_identity_id)

UserViewWithKey(r) ==
    [username |-> r.username, email |-> r.email, full_name |-> r.full_name,
     id |-> r.id, is_active |-> r.is_active,
     aws_access_key_id |-> r.aws_access_key_id]

\* public user view of a returned session
UserView(r) ==
    [username |-> r.username, email |-> r.email, full_name |-> r.full_name,
     id |-> r.id, is_active |-> r.is_active]

NoView ==
    [username |-> NONE, email |-> NONE, full_name |-> NONE, id |-> NONE,
     is_active |-> FALSE]

\* ------------------------------------------------------ identity provider
DeviceCodes == {"d1"}

\* provider-side status of a device authorization
DeviceStatuses == {"unissued", "pending", "granted", "denied", "expired"}

\* what client.create_token(deviceCode=...) answers: "ok" or the name of the
\* exception it raises.  Throttling and transport failures can hit any call.
CreateTokenReplies(status) ==
    {"SlowDownException", "EndpointConnectionError"} \cup
    CASE status = "pending"  -> {"AuthorizationPendingException"}
      [] status = "granted"  -> {"ok"}
      [] status = "denied"   -> {"AccessDeniedException"}
      [] status = "expired"  -> {"ExpiredTokenException"}
      [] OTHER               -> {"InvalidGrantException"}

\* sso_client.list_accounts(accessToken): raises, or returns an account list
\* (empty, or whose first account has emailAddress local@domain or none)
AccountReplies ==
    [kind : {"error", "empty"}, local : {NONE}] \cup
    [kind : {"account"}, local : {NONE, "alice"}]

EmailDomain == "@corp.example"

\* sso_client.get_role_credentials(...): raises, or returns roleCredentials
\* whose fields the code reads with .get(); expiration is epoch time, absent
\* when it is NoExpiration
NoExpiration == 0 - 1

RoleCredentialReplies ==
    [kind : {"error"}, ak : {NONE}, sk : {NONE}, st : {NONE},
     expiration : {NoExpiration}]
    \cup
    [kind : {"ok"}, ak : {"AK1"}, sk : {"SK1"}, st : {"ST1"}, expiration : {1}]
    \cup
    [kind : {"ok"}, ak : {"AK2"}, sk : {"SK2"}, st : {"ST2"},
     expiration : {NoExpiration}]

\* -------------------------------------------------- device-flow poll
TimeStr(t) == IF t \in 0..9 THEN <<"0","1","2","3","4","5","6","7","8","9">>[t + 1]
              ELSE "n"

SessionResult(rsp, store, tok, view) ==
    [resp |-> rsp, store |-> store, session |-> tok, view |-> view,
     called |-> FALSE]

Failure(st, det, store) ==
    SessionResult(Response(st, det, NONE, NONE), store, NoToken, NoView)

\* the "except Exception as token_error" block: substring match of the
\* exception class name in str(token_error), else re-raise, which the outer
\* handler turns into a 500
MapTokenError(name, store) ==
    IF name = "ExpiredTokenException" THEN Failure(400, "expired_token", store)
    ELSE IF name = "SlowDownException" THEN Failure(429, "slow_down", store)
    ELSE IF name = "AccessDeniedException" THEN Failure(400, "access_denied", store)
    ELSE IF name = "InvalidGrantException" THEN Failure(400, "authorization_pending", store)
    ELSE Failure(500, "Failed to create token from device code", store)

utcfromtimestamp(e, localOff) == Naive(e)

\* datetime.fromtimestamp(expiration / 1000): naive, in server-local time
fromtimestamp(e, localOff) == Naive(e + localOff)

UpdateCredentialsKeepToken(r, ak, sk, st, stored) ==
    [r EXCEPT !.aws_access_key_id = ak,
              !.aws_secret_access_key = sk,
              !.aws_token_expiry = stored,
              !.is_active = TRUE]

\* the "Update user" branch: all four credential fields and the active flag
UpdateCredentials(r, ak, sk, st, stored) ==
    [r EXCEPT !.aws_access_key_id = ak,
              !.aws_secret_access_key = sk,
              !.aws_session_token = st,
              !.aws_token_expiry = stored,
              !.is_active = TRUE]

create_token_from_device_code(reply, accounts, role, store, t, cfg, newId) ==
    IF reply # "ok" THEN MapTokenError(reply, store)
    ELSE
    LET defaultName == "user_" \o TimeStr(t)
        hasEmail == accounts.kind = "account" /\ accounts.local # NONE
        email == IF hasEmail THEN accounts.local \o EmailDomain
                 ELSE defaultName \o "@example.com"
        username == IF hasEmail THEN accounts.local ELSE defaultName
        full_name == IF hasEmail THEN "Title " \o accounts.local
                     ELSE "User " \o TimeStr(t)
        gotRole == role.kind = "ok"
        ak == IF gotRole THEN role.ak ELSE NONE
        sk == IF gotRole THEN role.sk ELSE NONE
        st == IF gotRole THEN role.st ELSE NONE
        expiry == IF gotRole /\ role.expiration # NoExpiration
                  THEN fromtimestamp(role.expiration, cfg.localOff) ELSE NoDate
        stored == ColumnStore(expiry, cfg.localOff)
        found == UserByName(store, username)
        newStore ==
            IF found = {}
            THEN store \cup {Row(newId, username, email, full_name, "",
                                  ak, sk, st, stored, TRUE)}
            ELSE {IF r \in found
                  THEN UpdateCredentials(r, ak, sk, st, stored)
                  ELSE r : r \in store}
        user == CHOOSE r \in UserByName(newStore, username) : TRUE
    IN  IF ~cfg.ssoRole
        THEN \* aws_access_key_id is never bound: UnboundLocalError
             MapTokenError("UnboundLocalError", store)
        ELSE IF ~UniqueOk(newStore)
        THEN \* db.commit() raises IntegrityError, the session rolls back
             MapTokenError("IntegrityError", store)
        ELSE IF ~jwt_encode_ok(cfg)
        THEN \* create_token raises after db.commit() has succeeded
             MapTokenError("JWKError", newStore)
        ELSE SessionResult(Returned(username), newStore,
                           create_token(username, {"sub", "email"}, t),
                           UserView(user))

\* ------------------------------------------- direct-credential login
\* sts_client.get_caller_identity(): raises, or returns UserId and Arn; the
\* Arn is held as its "/"-separated parts, the way arn.split("/") reads it
IdentityReplies ==
    {[kind |-> "error", user_id |-> NONE, arn |-> <<NONE>>],
     [kind |-> "ok", user_id |-> "AROA1:alice",
      arn |-> <<"arn:aws:sts::1:assumed-role", "Admin", "alice">>],
     [kind |-> "ok", user_id |-> "1", arn |-> <<"arn:aws:iam::1:root">>]}

CredentialsNotProvided == Response(400, "AWS credentials not provided", NONE, NONE)

\* get_aws_identity(): the 400 raised inside the try block is caught by the
\* function's own "except Exception" and leaves as a 500, like an STS failure
get_aws_identity(identity, cfg) ==
    IF ~cfg.ambient
    THEN [resp |-> Response(500, "Failed to get AWS identity: " \o
                                 CredentialsNotProvided.detail, NONE, NONE),
          called |-> FALSE]
    ELSE IF identity.kind = "error"
    THEN [resp |-> Response(500, "Failed to get AWS identity: sts error", NONE, NONE),
          called |-> TRUE]
    ELSE [resp |-> Returned(identity.user_id), called |-> TRUE]

FirstSegment(arn_parts) == IF Len(arn_parts) > 1 THEN arn_parts[2] ELSE arn_parts[1]

\* username = arn_parts[-1] if len(arn_parts) > 1 else arn_parts[0]
LastSegment(arn_parts) ==
    IF Len(arn_parts) > 1 THEN arn_parts[Len(arn_parts)] ELSE arn_parts[1]

UserByIdentity(store, ident) == {r \in store : r.aws_identity_id = ident}

LoginClaims == {"sub", "email", "aws_identity_id"}

ReactivateAndClear(r) ==
    [r EXCEPT !.is_active = TRUE, !.aws_session_token = NONE]

\* the "Update user" branch of the direct login: user.is_active = True
Reactivate(r) == [r EXCEPT !.is_active = TRUE]

login_with_aws_credentials(identity, store, t, cfg, newId) ==
    LET got == get_aws_identity(identity, cfg)
        prefix == "Failed to login with AWS credentials: "
        username == LastSegment(identity.arn)
        found == UserByIdentity(store, identity.user_id)
        newStore ==
            IF found = {}
            THEN store \cup {Row(newId, username, username \o "@example.com",
                                  username, identity.user_id,
                                  NONE, NONE, NONE, NoDate, TRUE)}
            ELSE {IF r \in found THEN Reactivate(r) ELSE r : r \in store}
        user == CHOOSE r \in UserByIdentity(newStore, identity.user_id) : TRUE
    IN  IF got.resp.status # 200
        THEN [Failure(500, prefix \o got.resp.detail, store)
                  EXCEPT !.called = got.called]
        ELSE IF ~UniqueOk(newStore)
        THEN [Failure(500, prefix \o "IntegrityError", store)
                  EXCEPT !.called = TRUE]
        ELSE IF ~jwt_encode_ok(cfg)
        THEN [Failure(500, prefix \o "JWKError", newStore)
                  EXCEPT !.called = TRUE]
        ELSE [SessionResult(Returned(user.username), newStore,
                            create_token(user.username, LoginClaims, t),
                            UserView(user))
                  EXCEPT !.called = TRUE]

\* POST /refresh: Depends(get_current_user), then a new token
refresh_token(token, store, t) ==
    LET rsp == get_current_user(token, store, t)
        user == CHOOSE r \in UserByName(store, token.sub) : TRUE
    IN  IF rsp.status # 200
        THEN SessionResult(rsp, store, NoToken, NoView)
        ELSE SessionResult(rsp, store, create_token(user.username, LoginClaims, t),
                           UserView(user))

\* ------------------------------------------------------------------ state
NoRole == CHOOSE r \in RoleCredentialReplies : r.kind = "error"

NoIdentity == CHOOSE i \in IdentityReplies : i.kind = "error"

Last(op, tok, row, rsp, ret, live, liveOk, dev, reply, sess, view) ==
    [op |-> op, at |-> now, token |-> tok, row |-> row, resp |-> rsp,
     ret |-> ret, live |-> live, liveOk |-> liveOk, device |-> dev,
     reply |-> reply, session |-> sess, view |-> view,
     role |-> NoRole, identity |-> NoIdentity, called |-> FALSE]

NoLast ==
    [op |-> "init", at |-> 0, token |-> NoToken, row |-> {},
     resp |-> NoResponse, ret |-> FALSE, live |-> FALSE,
     liveOk |-> FALSE, device |-> NONE, reply |-> NONE,
     session |-> NoToken, view |-> NoView,
     role |-> NoRole, identity |-> NoIdentity, called |-> FALSE]

InputTokens ==
    {Token(sg, sb, ex, {"sub", "email", "exp"}) :
        sg \in {"good", "bad"}, sb \in Usernames \cup {NONE}, ex \in 0..MaxTime}

Init ==
    /\ users = {}
    /\ now = 0
    /\ last = NoLast
    /\ devices = [d \in DeviceCodes |-> "unissued"]
    /\ settings \in [ssoRole : BOOLEAN, localOff : LocalOffsets,
                     ambient : BOOLEAN, secretKey : SecretKeys]
    /\ datasets = <<>>
    /\ experiments = <<>>
    /\ chats = <<>>
    /\ procs = <<>>
    /\ nextId = 1

\* the clock advances
Tick ==
    /\ now < MaxTime
    /\ now' = now + 1
    /\ UNCHANGED <<users, last, devices, settings, nextId>>

\* a protected request: Depends(get_current_user)
Verify(token) ==
    /\ last' = Last("verify", token, {r \in users : r.username = token.sub},
                    get_current_user(token, users, now), FALSE, FALSE, FALSE,
                    NONE, NONE, NoToken, NoView)
    /\ UNCHANGED <<users, now, devices, settings, nextId>>

\* validate_aws_credentials(user) for a loaded user
Validate(user, liveOk) ==
    /\ user \in users
    /\ LET v == validate_aws_credentials(user, now, liveOk)
       IN  last' = Last("validate", NoToken, {user}, NoResponse, v.ret, v.live,
                        liveOk, NONE, NONE, NoToken, NoView)
    /\ UNCHANGED <<users, now, devices, settings, nextId>>

\* POST /device-authorization: the provider issues a device code
StartDeviceAuthorization(d) ==
    /\ devices[d] = "unissued"
    /\ devices' = [devices EXCEPT ![d] = "pending"]
    /\ last' = Last("begin", NoToken, {}, Returned(NONE), FALSE, FALSE, FALSE,
                    d, "ok", NoToken, NoView)
    /\ UNCHANGED <<users, now, settings, nextId>>

\* the human approves or denies at the verification URI, or the code lapses
ProviderDecides(d, outcome) ==
    /\ devices[d] = "pending"
    /\ outcome \in {"granted", "denied", "expired"}
    /\ devices' = [devices EXCEPT ![d] = outcome]
    /\ UNCHANGED <<users, now, last, settings, nextId>>

UserId(n) == "u" \o TimeStr(n)

\* POST /token: create_token_from_device_code, one exchange
Poll(d, reply, accounts, role) ==
    /\ reply \in CreateTokenReplies(devices[d])
    /\ \E r \in {create_token_from_device_code(reply, accounts, role, users, now,
                                                 settings, UserId(nextId))} :
           /\ Cardinality(r.store) > Cardinality(users) => nextId <= MaxUsers
           /\ users' = r.store
           /\ nextId' = IF Cardinality(r.store) > Cardinality(users)
                         THEN nextId + 1 ELSE nextId
           /\ last' = [Last("poll", NoToken, {}, r.resp, FALSE, FALSE, FALSE,
                            d, reply, r.session, r.view)
                          EXCEPT !.role = IF r.resp.status = 200 THEN role
                                          ELSE NoRole]
    /\ UNCHANGED <<now, devices, settings>>

\* POST /aws-login: login_with_aws_credentials
DirectLogin(identity) ==
    /\ \E r \in {login_with_aws_credentials(identity, users, now, settings,
                                             UserId(nextId))} :
           /\ Cardinality(r.store) > Cardinality(users) => nextId <= MaxUsers
           /\ users' = r.store
           /\ nextId' = IF Cardinality(r.store) > Cardinality(users)
                         THEN nextId + 1 ELSE nextId
           /\ last' = [Last("login", NoToken, {}, r.resp, FALSE, FALSE, FALSE,
                            NONE, NONE, r.session, r.view)
                          EXCEPT !.identity = identity, !.called = r.called]
    /\ UNCHANGED <<now, devices, settings>>

\* POST /refresh with the session token the client holds
Refresh ==
    /\ last.session # NoToken
    /\ \E r \in {refresh_token(last.session, users, now)} :
           last' = Last("refresh", last.session, UserByName(users, last.session.sub),
                        r.resp, FALSE, FALSE, FALSE, NONE, NONE, r.session, r.view)
    /\ UNCHANGED <<users, now, devices, settings, nextId>>

\* an administrator blocks a user (a write of the persistence layer)
Deactivate(user) ==
    /\ user \in users
    /\ user.is_active
    /\ users' = {IF r = user THEN [r EXCEPT !.is_active = FALSE] ELSE r : r \in users}
    /\ last' = [last EXCEPT !.op = "block"]
    /\ UNCHANGED <<now, devices, settings, nextId>>

\* a poll whose exchange fails never reaches list_accounts or
\* get_role_credentials
NotCalled(replies) == {CHOOSE r \in replies : r.kind = "error"}

Next ==
  /\ UNCHANGED others
  /\
    \/ Tick
    \/ \E d \in DeviceCodes : StartDeviceAuthorization(d)
    \/ \E d \in DeviceCodes, o \in {"granted", "denied", "expired"} : ProviderDecides(d, o)
    \/ \E d \in DeviceCodes : \E reply \in CreateTokenReplies(devices[d]) :
          \E accounts \in IF reply = "ok" THEN AccountReplies ELSE NotCalled(AccountReplies),
             role \in IF reply = "ok" THEN RoleCredentialReplies
                      ELSE NotCalled(RoleCredentialReplies) :
            Poll(d, reply, accounts, role)
    \/ \E identity \in IF settings.ambient THEN IdentityReplies
                       ELSE NotCalled(IdentityReplies) :
          DirectLogin(identity)
    \/ Refresh
    \/ \E user \in users : Deactivate(user)

Spec == Init /\ [][Next]_vars

\* -------------------------------------------- the validator on any input
InputDates ==
    {NoDate} \cup {Naive(w) : w \in 0..MaxTime}
             \cup {Aware(w, o) : w \in 0..MaxTime, o \in TzOffsets}

InputRows ==
    {Row("u1", "alice", "alice@corp.example", "Title alice", NONE, ak, sk, st, ex, act) :
        ak \in {NONE, "AK1"}, sk \in {NONE, "SK1"}, st \in {NONE, "ST1"},
        ex \in InputDates, act \in BOOLEAN}

InitValidator ==
    /\ users \in {{}} \cup {{r} : r \in InputRows}
    /\ now = 0
    /\ last = NoLast
    /\ devices = [d \in DeviceCodes |-> "unissued"]
    /\ settings = [ssoRole |-> TRUE, localOff |-> 0, ambient |-> TRUE,
                   secretKey |-> "secret"]
    /\ datasets = <<>>
    /\ experiments = <<>>
    /\ chats = <<>>
    /\ procs = <<>>
    /\ nextId = 2

NextValidator ==
  /\ UNCHANGED others
  /\
    \/ Tick
    \/ \E token \in InputTokens : Verify(token)
    \/ \E user \in users, liveOk \in BOOLEAN : Validate(user, liveOk)

SpecValidator == InitValidator /\ [][NextValidator]_vars

\* ================================================================ datasets
\* backend/api/routes/datasets.py over the tables of models/dataset.py.
\* datasets = [next, ids, items]: the id sequence, the dataset rows and the
\* dataset_items rows in insertion order.
MaxItems == 3

MaxRows == 2

MaxDatasets == 1

\* batch_size = 100 in both handlers; scaled down so that lists longer than
\* one batch and lists that do not fill the last batch are enumerated
batch_size == 2

\* the attributes of the mapped class Dataset (columns and relationships)
DatasetAttributes ==
    {"id", "created_at", "updated_at", "name", "description", "dataset_type",
     "version", "is_active", "meta_data", "items", "experiments"}

\* the keyword arguments of Dataset(...) in create_dataset
DatasetKeywords ==
    {"name", "description", "dataset_type", "version", "is_active",
     "meta_data", "examples"}

\* str.strip() on the strings the inputs are drawn from
Strip(str) == IF str \in {" a", "a ", "a"} THEN "a"
              ELSE IF str \in {" ", ""} THEN ""
              ELSE str

\* a posted item: a JSON object with the given keys, or a non-object
InputItems ==
    [kind : {"dict"}, keys : {{"a"}, {" a", " "}}]
    \cup [kind : {"other"}, keys : {{}}]

SeqsUpTo(S, n) == UNION {[1..k -> S] : k \in 0..n}

\* DatasetCreate.validate_items: non-dictionaries are skipped, keys are
\* stripped, blank keys dropped, and an item left without a key is dropped
CleanKeys(item) == {Strip(k) : k \in item.keys} \ {""}

validate_items(v) ==
    LET keep == SelectSeq(v, LAMBDA item : item.kind = "dict" /\ CleanKeys(item) # {})
    IN  [i \in 1..Len(keep) |-> [kind |-> "dict", keys |-> CleanKeys(keep[i])]]

Min(a, b) == IF a < b THEN a ELSE b

\* for i in range(0, len(items), batch_size): add items[i:i + batch_size],
\* then commit; the rows added, in order
RECURSIVE AddInBatches(_, _, _)
AddInBatches(items, i, size) ==
    IF i >= Len(items) THEN <<>>
    ELSE SubSeq(items, i + 1, Min(i + size, Len(items)))
            \o AddInBatches(items, i + size, size)

ItemRows(id, contents) ==
    [i \in 1..Len(contents) |-> [dataset_id |-> id, content |-> contents[i]]]

DatasetResult(st, det, store, id) ==
    [status |-> st, detail |-> det, store |-> store, id |-> id]

\* POST /api/datasets/: Dataset(...) is built with the keyword "examples",
\* which the mapped class does not have, so the constructor raises
\* TypeError and the outer handler answers 500 before anything is stored
create_dataset(posted, store) ==
    LET items == validate_items(posted)
        id == store.next
        added == AddInBatches(SelectSeq(items, LAMBDA it : it.kind = "dict"),
                              0, batch_size)
    IN  IF ~(DatasetKeywords \subseteq DatasetAttributes)
        THEN DatasetResult(500, "An unexpected error occurred while creating the dataset",
                           store, 0)
        ELSE DatasetResult(201, "created",
                           [next |-> id + 1, ids |-> store.ids \cup {id},
                            items |-> store.items \o ItemRows(id, added)], id)

\* the uploaded CSV text after the header line: the lines as csv.reader
\* yields them (a blank line is the empty list)
CsvLines == {<<>>, <<"x">>, <<"", "">>, <<"x", "">>, <<" ", "x">>}

fieldnames == <<"a", "b">>

\* csv.DictReader: blank lines are skipped, a short line is filled up with
\* None, and each line becomes a dict over the field names
DictReader(lines) ==
    LET data == SelectSeq(lines, LAMBDA l : l # <<>>)
    IN  [i \in 1..Len(data) |->
            [k \in 1..Len(fieldnames) |->
                IF k <= Len(data[i]) THEN data[i][k] ELSE NONE]]

\* cleaned_value = value.strip() if value else None
CleanValue(value) ==
    IF value = NONE \/ value = "" THEN NONE ELSE Strip(value)

CleanRow(row) == [k \in 1..Len(row) |-> CleanValue(row[k])]

\* "if cleaned_row:" is the truth value of the dict: it has a key
RowTruthy(cleaned_row) == Len(cleaned_row) > 0

\* the csv branch of upload_dataset_file: one item per line DictReader
\* yields whose cleaned dict is non-empty
ParseCsv(lines) ==
    LET rows == DictReader(lines)
        cleaned == [i \in 1..Len(rows) |-> CleanRow(rows[i])]
    IN  SelectSeq(cleaned, RowTruthy)

\* POST /api/datasets/upload/file with file_type csv
upload_dataset_file(lines, store) ==
    LET items == ParseCsv(lines)
        id == store.next
        added == AddInBatches(items, 0, batch_size)
    IN  IF items = <<>>
        THEN \* the dataset row is inserted, then deleted again
             DatasetResult(400, "Error parsing file content: No valid data rows found in CSV file",
                           [store EXCEPT !.next = id + 1], 0)
        ELSE DatasetResult(200, "success",
                           [next |-> id + 1, ids |-> store.ids \cup {id},
                            items |-> store.items \o ItemRows(id, added)], id)

DatasetLast(op, input, r) ==
    [op |-> op, input |-> input, status |-> r.status, detail |-> r.detail,
     id |-> r.id]

NoDatasets == [next |-> 1, ids |-> {}, items |-> <<>>]

InitDatasets ==
    /\ users = {}
    /\ now = 0
    /\ devices = [d \in DeviceCodes |-> "unissued"]
    /\ settings = [ssoRole |-> TRUE, localOff |-> 0, ambient |-> TRUE,
                   secretKey |-> "secret"]
    /\ nextId = 1
    /\ datasets = NoDatasets
    /\ last = DatasetLast("init", <<>>, DatasetResult(0, NONE, NoDatasets, 0))
    /\ experiments = <<>>
    /\ chats = <<>>
    /\ procs = <<>>

CreateDataset(posted) ==
    /\ \E r \in {create_dataset(posted, datasets)} :
          /\ datasets' = r.store
          /\ last' = DatasetLast("create", posted, r)
    /\ UNCHANGED <<users, now, devices, settings, nextId, experiments, chats, procs>>

UploadDatasetFile(lines) ==
    /\ datasets.next <= MaxDatasets
    /\ \E r \in {upload_dataset_file(lines, datasets)} :
          /\ datasets' = r.store
          /\ last' = DatasetLast("upload", lines, r)
    /\ UNCHANGED <<users, now, devices, settings, nextId, experiments, chats, procs>>

NextDatasets ==
    \/ \E posted \in SeqsUpTo(InputItems, MaxItems) : CreateDataset(posted)
    \/ \E lines \in SeqsUpTo(CsvLines, MaxRows) : UploadDatasetFile(lines)

SpecDatasets == InitDatasets /\ [][NextDatasets]_vars

\* ===================================================== concurrent requests
\* Two requests in flight at once, each on its own AsyncSession (get_db).
\* A handler runs up to its next await; the steps below are the awaits that
\* touch the provider or the store.  procs[p] = [kind, pc, txn, role,
\* snapshot, intended, status]: txn says whether the request's session has an
\* open transaction (the session begins one at its first execute and ends it
\* at commit, rollback or close).
Procs == {1, 2}

Kinds == {"poll", "login", "check"}

\* the account and the identity both requests are for
SharedAccount == [kind |-> "account", local |-> "alice"]

SharedIdentity ==
    [kind |-> "ok", user_id |-> "AROA1:alice",
     arn |-> <<"arn:aws:sts::1:assumed-role", "Admin", "alice">>]

StartProc(k) ==
    [kind |-> k, pc |-> "start", txn |-> FALSE, role |-> NoRole,
     snapshot |-> {}, intended |-> {}, status |-> 0]

\* a row an earlier poll of "alice" left (role credentials without an
\* expiration), first created by a poll or by a direct login
EarlierRows ==
    {Row("u0", "alice", "alice" \o EmailDomain, "Title alice", "",
         "AK2", "SK2", "ST2", NoDate, TRUE),
     Row("u0", "alice", "alice@example.com", "alice", "AROA1:alice",
         "AK2", "SK2", "ST2", NoDate, TRUE)}

InitConcurrent ==
    /\ users \in {{}} \cup {{r} : r \in EarlierRows}
    /\ now = 0
    /\ last = NoLast
    /\ devices = [d \in DeviceCodes |-> "granted"]
    /\ settings = [ssoRole |-> TRUE, localOff |-> 0, ambient |-> TRUE,
                   secretKey |-> "secret"]
    /\ nextId = 1
    /\ datasets = <<>>
    /\ experiments = <<>>
    /\ chats = <<>>
    /\ procs \in [Procs -> {StartProc(k) : k \in Kinds}]

\* the row the poll builds from the provider's answers and the row it
\* loaded: User(...) when none was found, else the "Update user" branch
PollIntends(role, snapshot, cfg, newId) ==
    LET gotRole == role.kind = "ok"
        ak == IF gotRole THEN role.ak ELSE NONE
        sk == IF gotRole THEN role.sk ELSE NONE
        st == IF gotRole THEN role.st ELSE NONE
        expiry == IF gotRole /\ role.expiration # NoExpiration
                  THEN fromtimestamp(role.expiration, cfg.localOff) ELSE NoDate
        stored == ColumnStore(expiry, cfg.localOff)
        username == SharedAccount.local
    IN  IF snapshot = {}
        THEN {Row(newId, username, username \o EmailDomain,
                  "Title " \o username, "", ak, sk, st, stored, TRUE)}
        ELSE {UpdateCredentials(r, ak, sk, st, stored) : r \in snapshot}

\* the same for the direct login
LoginIntends(identity, snapshot, newId) ==
    LET username == LastSegment(identity.arn)
    IN  IF snapshot = {}
        THEN {Row(newId, username, username \o "@example.com", username,
                  identity.user_id, NONE, NONE, NONE, NoDate, TRUE)}
        ELSE {Reactivate(r) : r \in snapshot}

\* the unit of work at flush: UPDATE users SET <the attributes whose value
\* differs from the loaded one> WHERE id = <the loaded row's id>
FlushUpdate(store, snap, want) ==
    {IF cur.id # snap.id THEN cur
     ELSE Row(cur.id,
              IF want.username # snap.username THEN want.username ELSE cur.username,
              IF want.email # snap.email THEN want.email ELSE cur.email,
              IF want.full_name # snap.full_name THEN want.full_name ELSE cur.full_name,
              IF want.aws_identity_id # snap.aws_identity_id
                  THEN want.aws_identity_id ELSE cur.aws_identity_id,
              IF want.aws_access_key_id # snap.aws_access_key_id
                  THEN want.aws_access_key_id ELSE cur.aws_access_key_id,
              IF want.aws_secret_access_key # snap.aws_secret_access_key
                  THEN want.aws_secret_access_key ELSE cur.aws_secret_access_key,
              IF want.aws_session_token # snap.aws_session_token
                  THEN want.aws_session_token ELSE cur.aws_session_token,
              IF want.aws_token_expiry # snap.aws_token_expiry
                  THEN want.aws_token_expiry ELSE cur.aws_token_expiry,
              IF want.is_active # snap.is_active THEN want.is_active ELSE cur.is_active)
       : cur \in store}

\* the request starts a call to the provider: the SSO calls of the poll,
\* sts.get_caller_identity() of the direct login, and the live call of
\* validate_aws_credentials(current_user) in the credential-validity check
\* (which returns False without a call when the stored fields rule it out)
CallProvider(p) ==
    /\ \/ procs[p].kind \in {"poll", "login"} /\ procs[p].pc = "start"
       \/ procs[p].kind = "check" /\ procs[p].pc = "authed"
    /\ procs' =
          IF procs[p].kind = "check"
             /\ \E u \in procs[p].snapshot :
                    ~validate_aws_credentials(u, now, TRUE).live
          THEN [procs EXCEPT ![p].pc = "done", ![p].txn = FALSE, ![p].status = 200]
          ELSE [procs EXCEPT ![p].pc = "remote"]
    /\ UNCHANGED <<users, now, last, devices, settings, nextId, datasets,
                   experiments, chats>>

\* the call returns; the poll keeps the role credentials it was given
ProviderReturns(p, role) ==
    /\ procs[p].pc = "remote"
    /\ procs' =
          IF procs[p].kind = "check"
          THEN \* the handler returns and get_db commits and closes the session
               [procs EXCEPT ![p].pc = "done", ![p].txn = FALSE, ![p].status = 200]
          ELSE [procs EXCEPT ![p].pc = "fetched",
                             ![p].role = IF procs[p].kind = "poll" THEN role
                                         ELSE NoRole]
    /\ UNCHANGED <<users, now, last, devices, settings, nextId, datasets,
                   experiments, chats>>

\* await db.execute(select(User)...): the session begins its transaction and
\* the handler sets the attributes of the loaded object (or builds a new one)
Load(p) ==
    /\ \/ procs[p].kind \in {"poll", "login"} /\ procs[p].pc = "fetched"
       \/ procs[p].kind = "check" /\ procs[p].pc = "start"
    /\ LET snap == CASE procs[p].kind = "poll" ->
                            UserByName(users, SharedAccount.local)
                      [] procs[p].kind = "login" ->
                            UserByIdentity(users, SharedIdentity.user_id)
                      [] OTHER ->
                            \* get_current_user with the token of "alice"
                            UserByName(users, SharedAccount.local)
           want == CASE procs[p].kind = "poll" ->
                            PollIntends(procs[p].role, snap, settings, UserId(p))
                      [] procs[p].kind = "login" ->
                            LoginIntends(SharedIdentity, snap, UserId(p))
                      [] OTHER -> {}
       IN  procs' =
             IF procs[p].kind = "check"
             THEN IF snap = {}
                  THEN \* credentials_exception; get_db rolls back and closes
                       [procs EXCEPT ![p].pc = "done", ![p].status = 401]
                  ELSE [procs EXCEPT ![p].pc = "authed", ![p].txn = TRUE,
                                     ![p].snapshot = snap]
             ELSE [procs EXCEPT ![p].pc = "loaded", ![p].txn = TRUE,
                                ![p].snapshot = snap, ![p].intended = want]
    /\ UNCHANGED <<users, now, last, devices, settings, nextId, datasets,
                   experiments, chats>>

\* await db.commit(): flush (INSERT, or UPDATE of the changed attributes),
\* then COMMIT; a unique violation fails the request with 500
Commit(p) ==
    /\ procs[p].pc = "loaded"
    /\ \E want \in procs[p].intended :
          IF procs[p].snapshot = {}
          THEN IF UniqueOk(users \cup {want}) /\ want \notin users
               THEN /\ users' = users \cup {want}
                    /\ procs' = [procs EXCEPT ![p].pc = "done", ![p].txn = FALSE,
                                              ![p].status = 200]
               ELSE /\ users' = users
                    /\ procs' = [procs EXCEPT ![p].pc = "done", ![p].txn = FALSE,
                                              ![p].status = 500]
          ELSE \E snap \in procs[p].snapshot :
                  /\ users' = FlushUpdate(users, snap, want)
                  /\ procs' = [procs EXCEPT ![p].pc = "done", ![p].txn = FALSE,
                                            ![p].status = 200]
    /\ UNCHANGED <<now, last, devices, settings, nextId, datasets, experiments,
                   chats>>

NextConcurrent ==
    \/ \E p \in Procs : CallProvider(p)
    \/ \E p \in Procs, role \in RoleCredentialReplies : ProviderReturns(p, role)
    \/ \E p \in Procs : Load(p)
    \/ \E p \in Procs : Commit(p)

SpecConcurrent == InitConcurrent /\ [][NextConcurrent]_vars

\* ============================================================= experiments
\* backend/api/routes/experiments.py over models/experiment.py.
\* experiments = [next, rows, tasks]: the id sequence, the rows
\* [id, status, error] and the ids a background task was scheduled for.
MaxExperiments == 2

ExperimentStatus == {"created", "running", "completed", "failed"}

\* get_db yields an AsyncSession (sessionmaker(class_=AsyncSession)); that
\* class has execute(), flush() and commit(), and no query()
SessionAttributes == {"execute", "flush", "commit", "rollback", "close", "add"}

ExperimentRow(i, st, err) == [id |-> i, status |-> st, error |-> err]

ExperimentById(store, i) == {e \in store.rows : e.id = i}

ExperimentOutcome(st, det, store) == [status |-> st, detail |-> det, store |-> store]

\* POST /api/experiments/: the row starts with the column default CREATED
create_experiment(store) ==
    ExperimentOutcome(201, "created",
        [store EXCEPT !.next = store.next + 1,
                      !.rows = store.rows \cup
                               {ExperimentRow(store.next, "created", NONE)}])

\* PUT /api/experiments/{id}: UPDATE experiments SET <the given fields>
update_experiment(i, st, store) ==
    IF ExperimentById(store, i) = {}
    THEN ExperimentOutcome(404, "Experiment not found", store)
    ELSE ExperimentOutcome(200, "ok",
            [store EXCEPT !.rows = {IF e.id = i THEN [e EXCEPT !.status = st] ELSE e
                                      : e \in store.rows}])

\* DELETE /api/experiments/{id}
delete_experiment(i, store) ==
    IF ExperimentById(store, i) = {}
    THEN ExperimentOutcome(404, "Experiment not found", store)
    ELSE ExperimentOutcome(204, "ok",
            [store EXCEPT !.rows = {e \in store.rows : e.id # i}])

\* POST /api/experiments/{id}/run: the handler's first statement is
\* db.query(Experiment)..., and the injected session has no query(), so the
\* AttributeError leaves as 500 before the status is read.  The remaining
\* branches are the handler's statements in order.
run_experiment(i, store) ==
    IF "query" \notin SessionAttributes
    THEN ExperimentOutcome(500, "Internal Server Error", store)
    ELSE IF ExperimentById(store, i) = {}
    THEN ExperimentOutcome(404, "Experiment not found", store)
    ELSE IF \E e \in ExperimentById(store, i) : e.status = "running"
    THEN ExperimentOutcome(400, "Experiment is already running", store)
    ELSE ExperimentOutcome(200, "ok",
            [store EXCEPT !.tasks = store.tasks \cup {i},
                          !.rows = {IF e.id = i THEN [e EXCEPT !.status = "running"]
                                    ELSE e : e \in store.rows}])

StatusOf(store, i) ==
    IF ExperimentById(store, i) = {} THEN NONE
    ELSE (CHOOSE e \in ExperimentById(store, i) : TRUE).status

ExperimentLast(op, i, before, r) ==
    [op |-> op, id |-> i, before |-> before, status |-> r.status,
     detail |-> r.detail, tasks |-> r.store.tasks]

NoExperiments == [next |-> 1, rows |-> {}, tasks |-> {}]

InitExperiments ==
    /\ users = {}
    /\ now = 0
    /\ devices = [d \in DeviceCodes |-> "unissued"]
    /\ settings = [ssoRole |-> TRUE, localOff |-> 0, ambient |-> TRUE,
                   secretKey |-> "secret"]
    /\ nextId = 1
    /\ datasets = <<>>
    /\ experiments = NoExperiments
    /\ last = ExperimentLast("init", 0, NONE, ExperimentOutcome(0, NONE, NoExperiments))
    /\ chats = <<>>
    /\ procs = <<>>

ExperimentStep(op, i, r) ==
    /\ experiments' = r.store
    /\ last' = ExperimentLast(op, i, StatusOf(experiments, i), r)
    /\ UNCHANGED <<users, now, devices, settings, nextId, datasets, chats, procs>>

CreateExperiment ==
    /\ experiments.next <= MaxExperiments
    /\ ExperimentStep("create", experiments.next, create_experiment(experiments))

UpdateExperiment(i, st) ==
    /\ st \in ExperimentStatus
    /\ ExperimentStep("update", i, update_experiment(i, st, experiments))

DeleteExperiment(i) ==
    /\ i < experiments.next
    /\ ExperimentStep("delete", i, delete_experiment(i, experiments))

RunExperiment(i) ==
    /\ i \in 1..MaxExperiments
    /\ ExperimentStep("run", i, run_experiment(i, experiments))

NextExperiments ==
    \/ CreateExperiment
    \/ \E i \in 1..MaxExperiments, st \in ExperimentStatus : UpdateExperiment(i, st)
    \/ \E i \in 1..MaxExperiments : DeleteExperiment(i)
    \/ \E i \in 1..MaxExperiments : RunExperiment(i)

SpecExperiments == InitExperiments /\ [][NextExperiments]_vars

\* =================================================================== chats
\* backend/api/routes/chats.py over models/chat.py.  chats = [next, rows]:
\* the id sequence and the chat rows [id, user_id, title, messages], the
\* messages of a chat kept in "order" order.  Every handler runs behind
\* get_current_user; caller is current_user.id.
MaxChats == 2

MaxMessages == 2

ChatUsers == {"u1", "u2"}

ChatMessage(role, content, order) == [role |-> role, content |-> content, order |-> order]

\* the messages of a ChatCreate body
InputMessages == {<<>>, <<[role |-> "user", content |-> "hi"]>>}

ChatRow(i, uid, title, messages) ==
    [id |-> i, user_id |-> uid, title |-> title, messages |-> messages]

ChatResult(st, body, store) == [status |-> st, body |-> body, store |-> store]

ChatNotFound(store) == ChatResult(404, {}, store)

ChatById(store, chat_id, uid) == {c \in store.rows : c.id = chat_id}

\* select(Chat).where(Chat.id == chat_id, Chat.user_id == current_user.id)
ChatOf(store, chat_id, uid) ==
    {c \in store.rows : c.id = chat_id /\ c.user_id = uid}

\* select(Chat).where(Chat.user_id == current_user.id)
ChatsOfUser(store, uid) == {c \in store.rows : c.user_id = uid}

Replace(store, old, new) ==
    [store EXCEPT !.rows = (store.rows \ {old}) \cup {new}]

\* POST /api/chats/: the title is the start of the first user message
create_chat(uid, msgs, store) ==
    LET user_messages == SelectSeq(msgs, LAMBDA m : m.role = "user")
        title == IF user_messages # <<>> THEN user_messages[1].content ELSE NONE
        messages == [i \in 1..Len(msgs) |->
                        ChatMessage(msgs[i].role, msgs[i].content, i - 1)]
        chat == ChatRow(store.next, uid, title, messages)
    IN  ChatResult(201, {chat},
                   [next |-> store.next + 1, rows |-> store.rows \cup {chat}])

\* GET /api/chats/
get_user_chats(uid, store) == ChatResult(200, ChatsOfUser(store, uid), store)

\* GET /api/chats/{chat_id}
get_chat(chat_id, uid, store) ==
    LET found == ChatOf(store, chat_id, uid)
    IN  IF found = {} THEN ChatNotFound(store)
        ELSE ChatResult(200, found, store)

\* POST /api/chats/{chat_id}/messages: order = latest order + 1, or 0
add_message_to_chat(chat_id, uid, role, content, store) ==
    LET found == ChatOf(store, chat_id, uid)
    IN  IF found = {} THEN ChatNotFound(store)
        ELSE LET chat == CHOOSE c \in found : TRUE
                 n == Len(chat.messages)
                 new_order == IF n = 0 THEN 0 ELSE chat.messages[n].order + 1
                 new == [chat EXCEPT !.messages =
                            Append(@, ChatMessage(role, content, new_order))]
             IN  ChatResult(200, {new}, Replace(store, chat, new))

\* DELETE /api/chats/{chat_id}: the messages go with the chat (cascade)
delete_chat(chat_id, uid, store) ==
    LET found == ChatOf(store, chat_id, uid)
    IN  IF found = {} THEN ChatNotFound(store)
        ELSE ChatResult(204, {}, [store EXCEPT !.rows = store.rows \ found])

\* PUT /api/chats/{chat_id}: the title is set when one is given
update_chat(chat_id, uid, title, store) ==
    LET found == ChatOf(store, chat_id, uid)
    IN  IF found = {} THEN ChatNotFound(store)
        ELSE LET chat == CHOOSE c \in found : TRUE
                 new == IF title # NONE THEN [chat EXCEPT !.title = title] ELSE chat
             IN  ChatResult(200, {new}, Replace(store, chat, new))

ChatLast(op, uid, chat_id, r) ==
    [op |-> op, caller |-> uid, id |-> chat_id, status |-> r.status,
     body |-> r.body]

NoChats == [next |-> 1, rows |-> {}]

InitChats ==
    /\ users = {}
    /\ now = 0
    /\ devices = [d \in DeviceCodes |-> "unissued"]
    /\ settings = [ssoRole |-> TRUE, localOff |-> 0, ambient |-> TRUE,
                   secretKey |-> "secret"]
    /\ nextId = 1
    /\ datasets = <<>>
    /\ experiments = <<>>
    /\ chats = NoChats
    /\ last = ChatLast("init", NONE, 0, ChatResult(0, {}, NoChats))
    /\ procs = <<>>

ChatStep(op, uid, chat_id, r) ==
    /\ chats' = r.store
    /\ last' = ChatLast(op, uid, chat_id, r)
    /\ UNCHANGED <<users, now, devices, settings, nextId, datasets, experiments,
                   procs>>

CreateChat(uid, msgs) ==
    /\ chats.next <= MaxChats
    /\ ChatStep("create", uid, chats.next, create_chat(uid, msgs, chats))

GetUserChats(uid) ==
    /\ uid \in ChatUsers
    /\ ChatStep("list", uid, 0, get_user_chats(uid, chats))

GetChat(chat_id, uid) ==
    /\ uid \in ChatUsers
    /\ ChatStep("get", uid, chat_id, get_chat(chat_id, uid, chats))

AddMessageToChat(chat_id, uid, content) ==
    /\ \A c \in chats.rows : c.id = chat_id => Len(c.messages) < MaxMessages
    /\ ChatStep("add", uid, chat_id,
                add_message_to_chat(chat_id, uid, "user", content, chats))

DeleteChat(chat_id, uid) ==
    /\ uid \in ChatUsers
    /\ ChatStep("delete", uid, chat_id, delete_chat(chat_id, uid, chats))

UpdateChat(chat_id, uid, title) ==
    /\ uid \in ChatUsers
    /\ ChatStep("update", uid, chat_id, update_chat(chat_id, uid, title, chats))

NextChats ==
    \/ \E uid \in ChatUsers, msgs \in InputMessages : CreateChat(uid, msgs)
    \/ \E uid \in ChatUsers : GetUserChats(uid)
    \/ \E chat_id \in 1..MaxChats, uid \in ChatUsers : GetChat(chat_id, uid)
    \/ \E chat_id \in 1..MaxChats, uid \in ChatUsers :
          AddMessageToChat(chat_id, uid, "more")
    \/ \E chat_id \in 1..MaxChats, uid \in ChatUsers : DeleteChat(chat_id, uid)
    \/ \E chat_id \in 1..MaxChats, uid \in ChatUsers, title \in {NONE, "t1"} :
          UpdateChat(chat_id, uid, title)

SpecChats == InitChats /\ [][NextChats]_vars

\* ============================================================ properties
\* the last request was get_current_user on a validly signed token whose
\* expiry lies in the future
ValidVerify ==
    /\ last.op = "verify"
    /\ last.token.sig = "good"
    /\ last.token.exp > last.at

\* the user row the last request was about (rows are unique per username)
LastUser == CHOOSE r \in last.row : TRUE

IsInvalidToken(rsp) ==
    /\ rsp.status = 401
    /\ rsp.detail = "Could not validate credentials"
    /\ rsp.headers = "WWW-Authenticate: Bearer"

IsUserInactive(rsp) == rsp.status = 403 /\ rsp.detail = "Inactive user"

IsDelegatedExpired(rsp) ==
    /\ rsp.status = 401
    /\ rsp.detail = "AWS session expired, please log in again"
    /\ rsp.headers = "X-AWS-Session-Expired: true"

\* the stored expiry denotes an instant before the request
ExpiryPast(user, t) ==
    user.aws_token_expiry.tz # "none" /\ Instant(user.aws_token_expiry) < t

\* the code's comparison: the wall-clock reading lies before UTC now
ExpiryReadingPast(user, t) ==
    user.aws_token_expiry.tz # "none" /\ user.aws_token_expiry.wall < t

\* C1 as stated: every validly signed, unexpired token (whose subject names
\* a user) makes get_current_user return that user.
C1_Original ==
    (ValidVerify /\ last.row # {}) =>
        /\ last.resp.status = 200
        /\ last.resp.user = last.token.sub

\* C1 amended: for a validly signed, unexpired token whose subject names an
\* existing user, get_current_user never fails with InvalidToken; it returns
\* that user exactly when the user is active and the wall-clock reading of
\* its credential expiry is unset or not before now, and fails with
\* UserInactive or DelegatedCredentialsExpired otherwise.
C1_ValidTokenNeverInvalid ==
    (ValidVerify /\ last.row # {}) =>
        /\ ~IsInvalidToken(last.resp)
        /\ (last.resp.status = 200 /\ last.resp.user = last.token.sub)
             <=> (LastUser.is_active /\ ~ExpiryReadingPast(LastUser, last.at))
        /\ last.resp.status # 200 =>
             IsUserInactive(last.resp) \/ IsDelegatedExpired(last.resp)

C1_Witness ==
    /\ ValidVerify
    /\ last.row # {}
    /\ last.resp.status = 200
    /\ last.resp.user = "alice"

\* C2 as stated: a token past its expiry (here validly signed, for an
\* existing user) fails with TokenExpired, an outcome distinct from
\* InvalidToken.
C2_ExpiredTokenDistinct ==
    (last.op = "verify" /\ last.token.sig = "good" /\ last.token.exp < last.at
       /\ last.row # {}) =>
        /\ last.resp.status # 200
        /\ ~IsInvalidToken(last.resp)

\* C3 as stated: valid token, active user, credential expiry in the past
\* (naive or aware) gives DelegatedCredentialsExpired.
C3_PastExpiryRejected ==
    (ValidVerify /\ last.row # {} /\ LastUser.is_active
       /\ ExpiryPast(LastUser, last.at)) =>
        IsDelegatedExpired(last.resp)

\* C4: a validly signed, unexpired token of an inactive user fails with
\* UserInactive and returns no user, also when the user's credential expiry
\* is past (the inactive check comes first).
C4_InactiveRejectedFirst ==
    (ValidVerify /\ last.row # {} /\ ~LastUser.is_active) =>
        /\ IsUserInactive(last.resp)
        /\ last.resp.user = NONE

C4_Witness ==
    /\ ValidVerify
    /\ last.row # {}
    /\ ~LastUser.is_active
    /\ ExpiryReadingPast(LastUser, last.at)
    /\ IsUserInactive(last.resp)

\* C5: a bad signature, a missing subject claim and a subject that matches
\* no user all give the one InvalidToken response (same status, message and
\* headers).
C5_InvalidTokenUniform ==
    (last.op = "verify"
       /\ \/ last.token.sig # "good"
          \/ (ValidVerify /\ last.token.sub = NONE)
          \/ (ValidVerify /\ last.token.sub # NONE /\ last.row = {})) =>
        /\ IsInvalidToken(last.resp)
        /\ last.resp.user = NONE

C5_Witness ==
    /\ ValidVerify
    /\ last.token.sub = "bob"
    /\ last.row = {}
    /\ users # {}
    /\ IsInvalidToken(last.resp)

\* the last call was validate_aws_credentials(LastUser)
Validated == last.op = "validate"

AnyCredentialMissing(user) ==
    \/ user.aws_access_key_id = NONE
    \/ user.aws_secret_access_key = NONE
    \/ user.aws_session_token = NONE

NoDelegatedCredentials(user) ==
    /\ user.aws_access_key_id = NONE
    /\ user.aws_secret_access_key = NONE
    /\ user.aws_session_token = NONE
    /\ user.aws_token_expiry.tz = "none"

\* C6 as stated: false when any credential field is unset, false when the
\* expiry is in the past (naive or aware), true only when the expiry is not
\* past and the live identity lookup succeeded.
C6_ValidateResult ==
    Validated =>
        /\ AnyCredentialMissing(LastUser) => ~last.ret
        /\ ExpiryPast(LastUser, last.at) => ~last.ret
        /\ last.ret => (last.live /\ last.liveOk /\ ~ExpiryPast(LastUser, last.at))

\* C7 as stated: once the local check fails (expiry past, or a credential
\* field missing) no live identity lookup is issued.
C7_NoLiveCallAfterLocalFailure ==
    (Validated /\ (ExpiryPast(LastUser, last.at) \/ AnyCredentialMissing(LastUser))) =>
        ~last.live

\* C8 as stated: the check leaves the user store alone, never raises, and
\* missing fields, a past expiry and a failed live lookup all give false.
C8_FailClosed ==
    Validated =>
        /\ last.row \subseteq users
        /\ (AnyCredentialMissing(LastUser) \/ ExpiryPast(LastUser, last.at)
              \/ ~last.liveOk) => ~last.ret

\* C9: for an active user without delegated credentials and without expiry
\* (as the direct login creates it) a valid token is accepted and the user
\* returned, while the credential check answers false without a live call.
C9_NoCredentialsValidSession ==
    /\ (ValidVerify /\ last.row # {} /\ LastUser.is_active
          /\ NoDelegatedCredentials(LastUser)) =>
            (last.resp.status = 200 /\ last.resp.user = LastUser.username)
    /\ (Validated /\ NoDelegatedCredentials(LastUser)) =>
            (~last.ret /\ ~last.live)

C9_Witness ==
    /\ ValidVerify
    /\ last.row # {}
    /\ LastUser.is_active
    /\ NoDelegatedCredentials(LastUser)
    /\ last.at > 0
    /\ last.resp.status = 200

TerminalOutcomes == {"access_denied", "expired_token"}

\* C10 as stated: after a poll answered Denied or Expired, the next poll
\* with the same device code gives that same outcome again.
C10_TerminalOutcomeSticks ==
    [][(/\ last.op = "poll"
        /\ last.resp.detail \in TerminalOutcomes
        /\ last'.op = "poll"
        /\ last'.device = last.device)
       => last'.resp = last.resp]_vars

\* -------------------------------------------------- device-flow outcomes
PollOn(reply) == last.op = "poll" /\ last.reply = reply

\* C11 as stated: while the provider reports that the authorization is not
\* yet granted, the poll answers Pending (authorization_pending) and never
\* the generic failure.
C11_PendingIsNotAnError ==
    PollOn("AuthorizationPendingException") =>
        /\ last.resp.detail = "authorization_pending"
        /\ last.resp.status # 500

\* C12 as stated: a failing poll reports slow-down as SlowDown, expiry as
\* Expired, denial as Denied, a pending authorization as Pending and every
\* other provider or transport error as the generic failure, so that the
\* outcome tells the provider's condition.
C12_OutcomesTellConditions ==
    (last.op = "poll" /\ last.reply # "ok") =>
        /\ last.reply = "SlowDownException" <=> last.resp.detail = "slow_down"
        /\ last.reply = "ExpiredTokenException" <=> last.resp.detail = "expired_token"
        /\ last.reply = "AccessDeniedException" <=> last.resp.detail = "access_denied"
        /\ last.reply = "AuthorizationPendingException"
              <=> last.resp.detail = "authorization_pending"
        /\ last.reply \notin {"SlowDownException", "ExpiredTokenException",
                              "AccessDeniedException",
                              "AuthorizationPendingException"}
              <=> last.resp.status = 500

\* ------------------------------------------------ device-flow user rows
\* the step is a request of the given kind that returned a session
Issued(ops) ==
    /\ last' # last
    /\ last'.op \in ops
    /\ last'.resp.status = 200

Triple(r) ==
    <<r.aws_access_key_id, r.aws_secret_access_key, r.aws_session_token>>

RoleTriple(role) == <<role.ak, role.sk, role.st>>

\* the correlation id every device-flow login carries: user_info has no
\* "userId", so the id is the empty string
DeviceFlowIdentity == ""

C14_StoredCredentialsAreTheProviders ==
    (last.op = "poll" /\ last.resp.status = 200) =>
        \A r \in users :
            r.username = last.view.username =>
                /\ Triple(r) = RoleTriple(last.role)
                /\ IF last.role.expiration = NoExpiration
                   THEN r.aws_token_expiry = NoDate
                   ELSE /\ r.aws_token_expiry.tz # "none"
                        /\ Instant(r.aws_token_expiry) = last.role.expiration

C14_Witness ==
    /\ last.op = "poll"
    /\ last.resp.status = 200
    /\ last.role.expiration = 1
    /\ \E r \in users :
          /\ r.username = last.view.username
          /\ Triple(r) = <<"AK1", "SK1", "ST1">>
          /\ Instant(r.aws_token_expiry) = 1

\* C15 as stated: in the device flow of a new user every poll made while the
\* provider reports "not yet granted" answers Pending and creates no user,
\* and the poll that returns a session returns an active user whose token
\* get_current_user accepts as that same user.
C15_DeviceFlowOfNewUser ==
    [][(last' # last /\ last'.op = "poll")
       => /\ last'.reply = "AuthorizationPendingException"
                => /\ last'.resp.detail = "authorization_pending"
                   /\ users' = users
          /\ (/\ last'.resp.status = 200
              /\ last'.role.expiration = NoExpiration)
                => /\ last'.view.is_active
                   /\ get_current_user(last'.session, users', now').status = 200
                   /\ get_current_user(last'.session, users', now').user
                          = last'.view.username]_vars

\* --------------------------------------------------- what a session shows
SessionOps == {"poll", "login", "refresh"}

Secrets == {"AK1", "SK1", "ST1", "AK2", "SK2", "ST2"}

\* C16: a session returned by poll, direct login or refresh consists of the
\* token and the public user view (username, email, full name, id, active
\* flag); no key id, secret or session token is a field of the view, a value
\* in it, or a claim of the token.
C16_SessionHidesCredentials ==
    (last.op \in SessionOps /\ last.resp.status = 200) =>
        /\ DOMAIN last.view = {"username", "email", "full_name", "id", "is_active"}
        /\ \A f \in {"username", "email", "full_name", "id"} :
              last.view[f] \notin Secrets
        /\ last.session.claims \subseteq {"sub", "email", "aws_identity_id", "exp"}
        /\ last.session.sub \notin Secrets

\* a session was returned for a user whose row holds delegated credentials
C16_Witness ==
    /\ last.op \in SessionOps
    /\ last.resp.status = 200
    /\ \E r \in users :
          /\ r.username = last.view.username
          /\ r.aws_access_key_id \in Secrets
          /\ r.aws_session_token \in Secrets

\* C17 as stated: poll, direct login and refresh return no session for a
\* user whose active flag was false when the request was made.
C17_InactiveNeverIssued ==
    [][Issued(SessionOps)
       => \A r \in users : r.username = last'.view.username => r.is_active]_vars

\* ------------------------------------------------ direct-credential login
\* C18 as stated: without ambient credentials the direct login fails with
\* the not-configured outcome (400 "AWS credentials not provided"), which
\* differs from a failed identity lookup, and makes no identity call.
C18_NotConfiguredIsDistinct ==
    (last.op = "login" /\ ~settings.ambient) =>
        /\ last.resp.status = 400
        /\ last.resp.detail = "AWS credentials not provided"
        /\ ~last.called

\* C19: a direct login that returns a session leaves exactly one row with
\* the principal's id, which is active and whose username is the subject of
\* the token; a row it had to create is named by the last "/" segment of
\* the principal's ARN, and a login of a known principal adds no row.
C19_DirectLoginUpserts ==
    [][Issued({"login"})
       => LET id == last'.identity.user_id
              arn == last'.identity.arn
          IN  /\ Cardinality({r \in users' : r.aws_identity_id = id}) = 1
              /\ \A r \in users' :
                    r.aws_identity_id = id =>
                        /\ r.is_active
                        /\ last'.session.sub = r.username
                        /\ last'.view.username = r.username
                        /\ r.username = arn[Len(arn)]
              /\ IF \E r \in users : r.aws_identity_id = id
                 THEN Cardinality(users') = Cardinality(users)
                 ELSE Cardinality(users') = Cardinality(users) + 1]_vars

\* a principal has logged in again: its row already existed (a device-flow
\* login had stored credentials in it in between)
C19_Witness ==
    /\ last.op = "login"
    /\ last.resp.status = 200
    /\ last.identity.user_id = "AROA1:alice"
    /\ \E r \in users :
          /\ r.aws_identity_id = "AROA1:alice"
          /\ r.username = "alice"
          /\ r.aws_access_key_id # NONE
    /\ Cardinality({r \in users : r.aws_identity_id = "AROA1:alice"}) = 1

\* C20 as stated: every token issued by poll, direct login or refresh
\* carries exactly the claims sub, email, aws_identity_id and exp.
C20_SameTokenShape ==
    (last.op \in SessionOps /\ last.resp.status = 200) =>
        last.session.claims = {"sub", "email", "aws_identity_id", "exp"}

\* ------------------------------------------------- the stored credentials
HasAnyCredential(r) ==
    \/ r.aws_access_key_id # NONE
    \/ r.aws_secret_access_key # NONE
    \/ r.aws_session_token # NONE

\* C25 as stated: in every reachable state of the user store a user with
\* any delegated-credential field set also has the expiry timestamp set.
C25_CredentialsHaveExpiry ==
    \A r \in users : HasAnyCredential(r) => r.aws_token_expiry # NoDate

Quadruple(r) ==
    <<r.aws_access_key_id, r.aws_secret_access_key, r.aws_session_token,
      r.aws_token_expiry>>

\* C26: the direct login never writes the credential triple or its expiry:
\* a row that existed before the login holds the same four values after
\* it, and a row the login created has all four unset.
C26_DirectLoginKeepsCredentials ==
    [][(last' # last /\ last'.op = "login")
       => \A r2 \in users' :
             IF \E r \in users : r.id = r2.id
             THEN \A r \in users : r.id = r2.id => Quadruple(r2) = Quadruple(r)
             ELSE Quadruple(r2) = <<NONE, NONE, NONE, NoDate>>]_vars

\* a known principal has logged in and its row still holds the credentials
\* and the expiry a device-flow login had stored
C26_Witness ==
    /\ last.op = "login"
    /\ last.resp.status = 200
    /\ \E r \in users :
          /\ r.aws_identity_id = last.identity.user_id
          /\ Quadruple(r) = <<"AK1", "SK1", "ST1", Aware(1, 0)>>

\* C27 as stated: a poll that does not return a session leaves the user
\* store unchanged, whatever made it fail, and a poll that returns a
\* session has committed the user's row.
C27_FailedPollWritesNothing ==
    [][(last' # last /\ last'.op = "poll")
       => IF last'.resp.status = 200
          THEN \E r \in users' : r.username = last'.view.username
          ELSE users' = users]_vars

\* ---------------------------------------------------------------- datasets
ItemsOf(id) == SelectSeq(datasets.items, LAMBDA it : it.dataset_id = id)

\* the posted item is a dictionary with at least one key, none of them blank
ValidItem(item) ==
    item.kind = "dict" /\ item.keys # {} /\ \A k \in item.keys : Strip(k) # ""

\* C21 as stated: creating a dataset with a list of N valid dictionary
\* items stores exactly N items for that dataset, for every N, also above
\* the batch size and not a multiple of it.
C21_CreateStoresEveryItem ==
    (/\ last.op = "create"
     /\ \A i \in 1..Len(last.input) : ValidItem(last.input[i]))
        => /\ last.id \in datasets.ids
           /\ Len(ItemsOf(last.id)) = Len(last.input)

\* the line has at least one value that is not the empty string
HasValue(line) == \E k \in 1..Len(line) : line[k] # ""

ValidLines(lines) == SelectSeq(lines, HasValue)

\* C22 as stated: a CSV upload stores one item per data row that has at
\* least one non-empty value; blank rows and rows whose values are all
\* empty are not stored.
C22_UploadStoresValidRows ==
    (last.op = "upload" /\ last.status = 200)
        => Len(ItemsOf(last.id)) = Len(ValidLines(last.input))

\* ----------------------------------------------------- concurrent requests
Successful(p) ==
    /\ procs[p].kind \in {"poll", "login"}
    /\ procs[p].pc = "done"
    /\ procs[p].status = 200

\* C23 as stated: after two successful polls or logins for the same
\* identity, run in any interleaving, the stored credential triple and
\* expiry of the user are those of exactly one of the two, never a mix, and
\* exactly one row exists for the identity.
C23_ConcurrentWritesDoNotMix ==
    (\A p \in Procs : Successful(p))
        => /\ Cardinality(UserByName(users, SharedAccount.local)) = 1
           /\ \A r \in UserByName(users, SharedAccount.local) :
                 \E p \in Procs : \E want \in procs[p].intended :
                     Quadruple(r) = Quadruple(want)

\* C24 as stated: no store transaction is open while a remote call is in
\* flight, in poll, direct login and the credential-validity check.
C24_NoTransactionDuringRemoteCall ==
    \A p \in Procs : procs[p].pc = "remote" => ~procs[p].txn

\* ------------------------------------------------------------- experiments
\* C29 as stated: a run request for an experiment whose status is RUNNING
\* is rejected with 400 and schedules no task, so that at most one run task
\* exists per experiment.
C29_RunningIsRejected ==
    (last.op = "run" /\ last.before = "running")
        => /\ last.status = 400
           /\ last.detail = "Experiment is already running"

\* ------------------------------------------------------------------- chats
OnChat == {"get", "update", "delete", "add"}

\* C30: get, update, delete and add-message on a chat succeed only for the
\* user whose id is the chat's user_id; for any other authenticated user
\* they answer 404 and leave every chat and its messages unchanged; listing
\* returns exactly the caller's own chats.
C30_ChatsAreIsolated ==
    [][(last' # last)
       => /\ last'.op \in OnChat =>
               /\ last'.status \in {200, 204} =>
                     \E c \in chats.rows :
                         c.id = last'.id /\ c.user_id = last'.caller
               /\ (\A c \in chats.rows :
                         c.id = last'.id => c.user_id # last'.caller)
                     => /\ last'.status = 404
                        /\ last'.body = {}
                        /\ chats' = chats
          /\ last'.op = "list" =>
               last'.body = {c \in chats.rows : c.user_id = last'.caller}
          /\ \A c \in chats.rows :
               c.user_id # last'.caller => c \in chats'.rows]_vars

C30_Witness ==
    /\ last.op \in OnChat
    /\ last.status = 404
    /\ \E c \in chats.rows :
          c.id = last.id /\ c.user_id # last.caller /\ c.messages # <<>>

====
